---- MODULE Spec2Model ----
(***************************************************************************)
(* Model of the pluggo Client lifecycle (client.go), the Function stub     *)
(* (function.go) and the plugin processes they talk to.                    *)
(*                                                                         *)
(* Threads: thread 0 is the caller of the Client API; thread n >= 1 is the *)
(* supervision goroutine started by the n-th session's Open.  The Client   *)
(* has no lock, so every read and write of a Client field is its own step. *)
(* A panic in any goroutine ends the program: once panicked is set no      *)
(* action is enabled.                                                      *)
(***************************************************************************)
EXTENDS Naturals, Integers, Sequences, FiniteSets, TLC

\* ---------------------------------------------------------------- bounds
MaxOpens == 2
HealthCheckTimeoutTicks == 1
HealthCheckIntervalTicks == 1

\* a nil pointer: 0 where the model names the object by a number, and the
\* record Nil where the model keeps the object itself
NULL == 0
Nil == [nil |-> TRUE]
NoPanic == [thread |-> -1, what |-> "none"]
Caller == 0
Sessions == 1..MaxOpens
Threads == 0..MaxOpens

\* ------------------------------------------------- strings as char lists
Digits == <<"0", "1", "2", "3", "4", "5", "6", "7", "8", "9">>
DigitChars == {Digits[i] : i \in 1..10}
DigitVal(ch) == (CHOOSE i \in 1..10 : Digits[i] = ch) - 1
DigitOf(n) == Digits[n + 1]

\* unicode.IsSpace restricted to the characters the model uses
IsSpace(ch) == ch \in {" ", "\n", "\t", "\r"}

RECURSIVE TrimLeft(_)
TrimLeft(s) == IF s # <<>> /\ IsSpace(Head(s)) THEN TrimLeft(Tail(s)) ELSE s

RECURSIVE TrimRight(_)
TrimRight(s) ==
    IF s # <<>> /\ IsSpace(s[Len(s)]) THEN TrimRight(SubSeq(s, 1, Len(s) - 1)) ELSE s

TrimSpace(s) == TrimRight(TrimLeft(s))

AllDigits(s) == \A i \in 1..Len(s) : s[i] \in DigitChars

\* strconv.Atoi succeeds: optional sign, then one or more decimal digits
AtoiOK(s) ==
    LET body == IF s # <<>> /\ Head(s) \in {"+", "-"} THEN Tail(s) ELSE s
    IN  body # <<>> /\ AllDigits(body)

RECURSIVE DecimalValue(_)
DecimalValue(s) ==
    IF s = <<>> THEN 0 ELSE 10 * DecimalValue(SubSeq(s, 1, Len(s) - 1)) + DigitVal(s[Len(s)])

\* bufio.Reader.ReadString('\n'): the data up to and including the first
\* newline, or everything with an error when the stream ends before one
HasNewline(s) == \E i \in 1..Len(s) : s[i] = "\n"
FirstNewline(s) == CHOOSE i \in 1..Len(s) : s[i] = "\n" /\ \A j \in 1..(i - 1) : s[j] # "\n"
ReadString(s) ==
    IF HasNewline(s) THEN [line |-> SubSeq(s, 1, FirstNewline(s)), err |-> FALSE]
                     ELSE [line |-> s, err |-> TRUE]

\* ------------------------------------------------------- the environment
\* the plugin started in session n binds port n
PortOf(n) == <<DigitOf(n)>>

\* what a plugin may write to its stdout before anything else
Outputs(n) ==
    { PortOf(n) \o <<"\n">>,
      <<" ">> \o PortOf(n) \o <<" ", "\n">>,
      <<"-">> \o PortOf(n) \o <<"\n">>,
      <<"0", "\n">>,
      <<"x", "\n">>,
      PortOf(n) }

\* os.Stat results for the configured path: kind and permission bits
StatResults ==
    { [kind |-> "missing", mode |-> 0],
      [kind |-> "dir",     mode |-> 493],
      [kind |-> "file",    mode |-> 420],
      [kind |-> "file",    mode |-> 8] }

\* fileInfo.Mode()&0111 != 0
RECURSIVE BitAnd(_, _)
BitAnd(a, b) ==
    IF a = 0 \/ b = 0 THEN 0
    ELSE (a % 2) * (b % 2) + 2 * BitAnd(a \div 2, b \div 2)

ExecBits == 73
fileIsExecutable(mode) == BitAnd(mode, ExecBits) # 0

DefaultFunctionExecutionTimeout == 120

VARIABLES
    heartbeatInterval,        \* Client.heartbeatInterval (configuration)
    functionExecutionTimeout, \* Client.functionExecutionTimeout
    commandContext,           \* Client.commandContext: NULL or a process id
    cancel,                   \* Client.cancel: NULL or a context id
    heartbeatChan,            \* Client.heartbeatChan: NULL or a channel id
    connection,               \* Client.connection: Nil or a Connection
    httpClient,               \* Client.httpClient: Nil or an http.Client
    procs,                    \* process id -> "none" | "running" | "dead"
    ctxDone,                  \* the cancelled contexts
    nsess,                    \* the number of contexts created so far
    chanCloses,               \* channel id -> number of close() calls made on it
    pc,                       \* thread -> position
    elapsed,                  \* thread -> time spent in the current waitForHealth
    op,                       \* the caller's current or last API call
    result,                   \* what the caller's last API call returned
    started,                  \* the process started by the caller's current Open, or 0
    probed200,                \* the caller's current Open saw a 200 health probe
    stat,                     \* the os.Stat result of the caller's last Open
    stdout,                   \* what the caller's last Open read from the plugin
    killErr,                  \* the caller's Close got an error from Process.Kill
    stub,                     \* the Function built by the caller: Nil or a record
    calledClosed,             \* the caller's Close began with every Client field nil
    panicked,                 \* NoPanic or the panic that ended the program
    functions,                \* Plugin.functions: name -> the handler whose Schema it holds, or 0
    routes,                   \* the ServeMux's registrations: {[pattern, kind, handler]}
    muxPtr,                   \* Plugin.mux is not nil
    httpServerPtr,            \* Plugin.httpServer is not nil
    srvState,                 \* the http.Server: "new" | "serving" | "closed"
    listener,                 \* the port Start's listener is bound to, or 0
    srvStdout,                \* the lines the plugin process wrote to standard output
    startLog,                 \* the events of the current or last execution of Start
    spc,                      \* plugin thread -> position
    sop,                      \* the main thread's current or last Plugin call
    calls,                    \* the number of Plugin calls the main thread has made
    srvPanic,                 \* "none" or the panic that ended the plugin process
    endpoint,                 \* the FunctionHandler: Nil or [validator] (whether it has one)
    request,                  \* the request the endpoint's handler is serving or served last
    response,                 \* the handler's response to it: status and body
    hpc,                      \* the handler's position
    invocations,              \* how often the wrapped function was invoked for the request
    decoded,                  \* the input decodeInput returned
    fnRet,                    \* what the wrapped function returned for the request
    cpc,                      \* the position of the stub's Call
    callIn,                   \* the input of the current or last Call
    callName,                 \* the function name of the stub that made it
    callRet,                  \* what the last Call returned: output and error
    wire,                     \* the Call's request was answered, the answer read in full
    nreq,                     \* the number of requests and Calls made so far
    now,                      \* the clock of the timed session, in units of 50 ms
    tpc,                      \* the timed session's supervision goroutine's position
    healthCheckTimeout,       \* Client.healthCheckTimeout of the timed session
    nextTick,                 \* when its ticker fires next
    deadline,                 \* the deadline of its current waitForHealth
    wake,                     \* when its current time.Sleep ends
    plugin,                   \* its plugin process: "none" | "running" | "dead"
    tExit,                    \* when its plugin exited by itself, or -1
    tFired,                   \* when its heartbeatChan was closed, or -1
    pnow,                     \* the clock of the startup polling, in units of 50 ms
    ppc,                      \* the position of Open's waitForHealth
    ptimeout,                 \* Client.healthCheckTimeout of that Client
    pstart,                   \* when its waitForHealth was entered
    pdeadline,                \* deadline of that waitForHealth
    probes,                   \* the probes it has issued
    failed,                   \* those that did not return 200
    slept,                    \* the time.Sleep calls it has made
    got200,                   \* a probe returned 200
    handle                    \* what the caller's last Done() returned, and when

clientFields == <<commandContext, cancel, heartbeatChan, connection, httpClient>>
config == <<heartbeatInterval, functionExecutionTimeout>>
\* the Plugin Server, which lives in the plugin process
serverVars == <<functions, routes, muxPtr, httpServerPtr, srvState, listener, srvStdout,
                startLog, spc, sop, calls, srvPanic>>
\* the Client, its goroutines and the processes it starts
clientVars == <<heartbeatInterval, functionExecutionTimeout, commandContext, cancel,
                heartbeatChan, connection, httpClient, procs, ctxDone, nsess, chanCloses, pc,
                elapsed, op, result, started, probed200, stat, stdout, calledClosed, killErr,
                stub, panicked>>
\* a Function Endpoint in the plugin process and a Function stub calling it
rpcVars == <<endpoint, request, response, hpc, invocations, decoded, fnRet, cpc, callIn,
             callName, callRet, wire, nreq>>
\* one supervised session on a clock
timedVars == <<now, tpc, healthCheckTimeout, nextTick, deadline, wake, plugin, tExit, tFired>>
\* Open's startup polling on a clock
pollVars == <<pnow, ppc, ptimeout, pstart, pdeadline, probes, failed, slept, got200>>
\* a waiter on the health signal
waiterVars == <<handle>>
\* what the Client's steps never touch
others == <<serverVars, rpcVars, timedVars, pollVars, waiterVars>>
\* what the Plugin Server's steps never touch
notServer == <<clientVars, rpcVars, timedVars, pollVars, waiterVars>>
\* what the steps of an endpoint and of a stub's Call never touch
notRpc == <<clientVars, serverVars, timedVars, pollVars, waiterVars>>
\* what the steps of the timed session never touch
notTimed == <<clientVars, serverVars, rpcVars, pollVars, waiterVars>>
\* what the steps of the startup polling never touch
notPoll == <<clientVars, serverVars, rpcVars, timedVars, waiterVars>>
history == <<op, result, started, probed200, stat, stdout, calledClosed>>
vars == <<heartbeatInterval, functionExecutionTimeout, commandContext, cancel,
          heartbeatChan, connection, httpClient, procs, ctxDone, nsess, chanCloses, pc,
          elapsed, op, result, started, probed200, stat, stdout, calledClosed, killErr,
          stub, panicked, functions, routes, muxPtr, httpServerPtr, srvState, listener,
          srvStdout, startLog, spc, sop, calls, srvPanic, endpoint, request, response, hpc,
          invocations, decoded, fnRet, cpc, callIn, callName, callRet, wire, nreq, now, tpc,
          healthCheckTimeout, nextTick, deadline, wake, plugin, tExit, tFired, pnow, ppc,
          ptimeout, pstart, pdeadline, probes, failed, slept, got200, handle>>

Running == panicked = NoPanic

\* every field Close clears is nil
AllNil ==
    /\ commandContext = NULL
    /\ cancel = NULL
    /\ heartbeatChan = NULL
    /\ connection = Nil
    /\ httpClient = Nil

\* New(path, opts...)
New ==
    /\ heartbeatInterval \in {0, 1}
    /\ functionExecutionTimeout = DefaultFunctionExecutionTimeout
    /\ commandContext = NULL
    /\ cancel = NULL
    /\ heartbeatChan = NULL
    /\ connection = Nil
    /\ httpClient = Nil
    /\ procs = [n \in Sessions |-> "none"]
    /\ ctxDone = {}
    /\ nsess = 0
    /\ chanCloses = [n \in Sessions |-> 0]
    /\ pc = [t \in Threads |-> IF t = Caller THEN "idle" ELSE "none"]
    /\ elapsed = [t \in Threads |-> 0]
    /\ op = "none"
    /\ result = "none"
    /\ started = 0
    /\ probed200 = FALSE
    /\ stat = Nil
    /\ stdout = <<>>
    /\ killErr = FALSE
    /\ calledClosed = FALSE
    /\ stub = Nil
    /\ panicked = NoPanic

Panic(t, what) == [thread |-> t, what |-> what]

\* ------------------------------------------------------------ Close
\* Where a thread goes when its Close returns: the caller back to idle with
\* the result of the call that made it, a supervision goroutine to its end.
CloseReturn(t) ==
    IF t = Caller
    THEN /\ pc' = [pc EXCEPT ![t] = "idle"]
         /\ result' = IF op = "Open" THEN "PluginExecutionError"
                      ELSE IF killErr THEN "KillError" ELSE "nil"
         /\ killErr' = FALSE
         /\ stdout' = <<>>
    ELSE /\ pc' = [pc EXCEPT ![t] = "done"]
         /\ UNCHANGED <<result, killErr, stdout>>

\* Close called by the caller
CloseCall ==
    /\ Running
    /\ pc[Caller] = "idle"
    /\ op' = "Close"
    /\ result' = "pending"
    /\ started' = 0
    /\ calledClosed' = AllNil
    /\ killErr' = FALSE
    /\ pc' = [pc EXCEPT ![Caller] = "close_cancel"]
    /\ UNCHANGED <<others, config, clientFields, procs, ctxDone, nsess, chanCloses, elapsed,
                   probed200, stat, stdout, stub, panicked>>

\* if c.cancel != nil { c.cancel() }
CloseCancel(t) ==
    /\ Running
    /\ pc[t] = "close_cancel"
    /\ ctxDone' = IF cancel # NULL THEN ctxDone \cup {cancel} ELSE ctxDone
    /\ pc' = [pc EXCEPT ![t] = "close_kill_check"]
    /\ UNCHANGED <<others, config, clientFields, procs, nsess, chanCloses, elapsed, history,
                   killErr, stub, panicked>>

\* if c.commandContext != nil && c.commandContext.Process != nil
CloseKillCheck(t) ==
    /\ Running
    /\ pc[t] = "close_kill_check"
    /\ pc' = [pc EXCEPT ![t] = IF commandContext # NULL THEN "close_kill" ELSE "close_d_cmd"]
    /\ UNCHANGED <<others, config, clientFields, procs, ctxDone, nsess, chanCloses, elapsed,
                   history, killErr, stub, panicked>>

\* return c.commandContext.Process.Kill(): the field is read again
CloseKill(t) ==
    /\ Running
    /\ pc[t] = "close_kill"
    /\ IF commandContext = NULL
       THEN /\ panicked' = Panic(t, "nil pointer dereference")
            /\ UNCHANGED <<procs, killErr, pc>>
       ELSE /\ procs' = [procs EXCEPT ![commandContext] = "dead"]
            /\ \E e \in BOOLEAN :
                 /\ e => procs[commandContext] = "dead"
                 /\ killErr' = IF t = Caller THEN e ELSE killErr
            /\ pc' = [pc EXCEPT ![t] = "close_d_cmd"]
            /\ UNCHANGED panicked
    /\ UNCHANGED <<others, config, clientFields, ctxDone, nsess, chanCloses, elapsed, history,
                   stub>>

\* deferred: c.commandContext = nil
CloseDeferCmd(t) ==
    /\ Running
    /\ pc[t] = "close_d_cmd"
    /\ commandContext' = NULL
    /\ pc' = [pc EXCEPT ![t] = "close_d_cancel"]
    /\ UNCHANGED <<others, config, cancel, heartbeatChan, connection, httpClient, procs, ctxDone,
                   nsess, chanCloses, elapsed, history, killErr, stub, panicked>>

\* deferred: c.cancel = nil
CloseDeferCancel(t) ==
    /\ Running
    /\ pc[t] = "close_d_cancel"
    /\ cancel' = NULL
    /\ pc' = [pc EXCEPT ![t] = "close_d_chk"]
    /\ UNCHANGED <<others, config, commandContext, heartbeatChan, connection, httpClient, procs,
                   ctxDone, nsess, chanCloses, elapsed, history, killErr, stub, panicked>>

CloseDeferChanCheckAlways(t) ==
    /\ Running
    /\ pc[t] = "close_d_chk"
    /\ pc' = [pc EXCEPT ![t] = "close_d_close"]
    /\ UNCHANGED <<others, config, clientFields, procs, ctxDone, nsess, chanCloses, elapsed,
                   history, killErr, stub, panicked>>

\* deferred: if c.heartbeatChan != nil
CloseDeferChanCheck(t) ==
    /\ Running
    /\ pc[t] = "close_d_chk"
    /\ pc' = [pc EXCEPT ![t] = IF heartbeatChan # NULL THEN "close_d_close" ELSE "close_d_conn"]
    /\ UNCHANGED <<others, config, clientFields, procs, ctxDone, nsess, chanCloses, elapsed,
                   history, killErr, stub, panicked>>

\* deferred: close(c.heartbeatChan); closing a nil or a closed channel panics
CloseDeferChanClose(t) ==
    /\ Running
    /\ pc[t] = "close_d_close"
    /\ IF heartbeatChan = NULL
       THEN /\ panicked' = Panic(t, "close of nil channel")
            /\ UNCHANGED <<chanCloses, pc>>
       ELSE /\ chanCloses' = [chanCloses EXCEPT ![heartbeatChan] = @ + 1]
            /\ IF chanCloses[heartbeatChan] > 0
               THEN /\ panicked' = Panic(t, "close of closed channel")
                    /\ UNCHANGED pc
               ELSE /\ pc' = [pc EXCEPT ![t] = "close_d_chnil"]
                    /\ UNCHANGED panicked
    /\ UNCHANGED <<others, config, clientFields, procs, ctxDone, nsess, elapsed, history, killErr,
                   stub>>

\* deferred: c.heartbeatChan = nil
CloseDeferChanNil(t) ==
    /\ Running
    /\ pc[t] = "close_d_chnil"
    /\ heartbeatChan' = NULL
    /\ pc' = [pc EXCEPT ![t] = "close_d_conn"]
    /\ UNCHANGED <<others, config, commandContext, cancel, connection, httpClient, procs, ctxDone,
                   nsess, chanCloses, elapsed, history, killErr, stub, panicked>>

\* deferred: c.connection = nil
CloseDeferConn(t) ==
    /\ Running
    /\ pc[t] = "close_d_conn"
    /\ connection' = Nil
    /\ pc' = [pc EXCEPT ![t] = "close_d_http"]
    /\ UNCHANGED <<others, config, commandContext, cancel, heartbeatChan, httpClient, procs,
                   ctxDone, nsess, chanCloses, elapsed, history, killErr, stub, panicked>>

\* deferred: c.httpClient = nil; Close returns
CloseDeferHTTP(t) ==
    /\ Running
    /\ pc[t] = "close_d_http"
    /\ httpClient' = Nil
    /\ CloseReturn(t)
    /\ UNCHANGED <<others, config, commandContext, cancel, heartbeatChan, connection, procs,
                   ctxDone, nsess, chanCloses, elapsed, op, started, probed200, stat, calledClosed,
                   stub, panicked, functions, routes, muxPtr, httpServerPtr, srvState, listener,
          srvStdout, startLog, spc, sop, calls, srvPanic>>

Close(t) ==
    \/ CloseCancel(t)
    \/ CloseKillCheck(t)
    \/ CloseKill(t)
    \/ CloseDeferCmd(t)
    \/ CloseDeferCancel(t)
    \/ CloseDeferChanCheck(t)
    \/ CloseDeferChanClose(t)
    \/ CloseDeferChanNil(t)
    \/ CloseDeferConn(t)
    \/ CloseDeferHTTP(t)

\* ------------------------------------------------------------- Open
\* if c.commandContext != nil { return errors.New("plugin is already running") }
AlreadyRunningNever == FALSE
AlreadyRunning == commandContext # NULL

\* fileInfo, err := os.Stat(c.path); if err != nil || fileInfo.IsDir()
NotFoundIgnoresDir(st) == st.kind = "missing"
NotFound(st) == st.kind # "file"

\* Open up to the first write of a Client field: the already-running check,
\* os.Stat and the permission test touch no state another goroutine writes
\* except the one read of c.commandContext.
OpenCall ==
    /\ Running
    /\ pc[Caller] = "idle"
    /\ op' = "Open"
    /\ started' = 0
    /\ probed200' = FALSE
    /\ calledClosed' = FALSE
    /\ IF AlreadyRunning
       THEN /\ result' = "already running"
            /\ stat' = Nil
            /\ UNCHANGED pc
       ELSE \E st \in StatResults :
              /\ stat' = st
              /\ IF NotFound(st)
                 THEN result' = "PluginNotFoundError" /\ UNCHANGED pc
                 ELSE IF ~fileIsExecutable(st.mode)
                 THEN result' = "PluginExecutionError" /\ UNCHANGED pc
                 ELSE /\ nsess < MaxOpens
                      /\ result' = "pending"
                      /\ pc' = [pc EXCEPT ![Caller] = "open_cancel"]
    /\ UNCHANGED <<others, config, clientFields, procs, ctxDone, nsess, chanCloses, elapsed,
                   stdout, killErr, stub, panicked>>

\* cancelCtx, cancel := context.WithCancel(ctx); c.cancel = cancel
OpenCancel ==
    /\ Running
    /\ pc[Caller] = "open_cancel"
    /\ nsess' = nsess + 1
    /\ cancel' = nsess + 1
    /\ pc' = [pc EXCEPT ![Caller] = "open_start"]
    /\ stat' = Nil
    /\ UNCHANGED <<others, config, commandContext, heartbeatChan, connection, httpClient, procs,
                   ctxDone, chanCloses, elapsed, op, result, started, probed200, stdout, calledClosed,
                   killErr, stub, panicked>>

\* commandContext.Start(), which fails at once on a cancelled context, and
\* c.commandContext = commandContext
OpenStart ==
    /\ Running
    /\ pc[Caller] = "open_start"
    /\ \E ok \in BOOLEAN :
         /\ ok => nsess \notin ctxDone
         /\ IF ok
            THEN /\ procs' = [procs EXCEPT ![nsess] = "running"]
                 /\ commandContext' = nsess
                 /\ started' = nsess
                 /\ pc' = [pc EXCEPT ![Caller] = "open_read"]
            ELSE /\ pc' = [pc EXCEPT ![Caller] = "close_cancel"]
                 /\ UNCHANGED <<procs, commandContext, started>>
    /\ killErr' = FALSE
    /\ UNCHANGED <<others, config, cancel, heartbeatChan, connection, httpClient, ctxDone, nsess,
                   chanCloses, elapsed, op, result, probed200, stat, stdout, calledClosed, stub,
                   panicked>>

\* reader.ReadString('\n'), strings.TrimSpace and strconv.Atoi; the read
\* ends without a newline only when the process has ended
OpenRead ==
    /\ Running
    /\ pc[Caller] = "open_read"
    /\ \E out \in Outputs(started) :
         LET r == ReadString(out) IN
         /\ r.err => procs[started] = "dead"
         /\ stdout' = r.line
         /\ pc' = [pc EXCEPT ![Caller] =
                     IF r.err \/ ~AtoiOK(TrimSpace(r.line)) THEN "close_cancel"
                                                             ELSE "open_conn"]
    /\ UNCHANGED <<others, config, clientFields, procs, ctxDone, nsess, chanCloses, elapsed, op,
                   result, started, probed200, stat, calledClosed, killErr, stub, panicked>>

\* c.connection = &Connection{BaseURL: "http://127.0.0.1:" + pluginPort}; the
\* base address is modelled by its port text, FunctionExecutionTimeout is
\* left at its zero value
NewConnection(pluginPort) == [BaseURL |-> pluginPort, FunctionExecutionTimeout |-> 0]

OpenConn ==
    /\ Running
    /\ pc[Caller] = "open_conn"
    /\ connection' = NewConnection(TrimSpace(stdout))
    /\ pc' = [pc EXCEPT ![Caller] = "open_http"]
    /\ UNCHANGED <<others, config, commandContext, cancel, heartbeatChan, httpClient, procs,
                   ctxDone, nsess, chanCloses, elapsed, history, killErr, stub, panicked>>

\* c.httpClient = &http.Client{Timeout: c.functionExecutionTimeout}; then
\* waitForHealth is entered
OpenHTTP ==
    /\ Running
    /\ pc[Caller] = "open_http"
    /\ httpClient' = [Timeout |-> functionExecutionTimeout]
    /\ elapsed' = [elapsed EXCEPT ![Caller] = 0]
    /\ pc' = [pc EXCEPT ![Caller] = "wfh"]
    /\ UNCHANGED <<others, config, commandContext, cancel, heartbeatChan, connection, procs,
                   ctxDone, nsess, chanCloses, history, killErr, stub, panicked>>

\* -------------------------------------------------------- waitForHealth
\* the process a request to this base address reaches: a URL port must be
\* all digits, and the plugin of session n listens on port n
Target(baseURL) ==
    IF baseURL # <<>> /\ AllDigits(baseURL) /\ DecimalValue(baseURL) \in Sessions
    THEN DecimalValue(baseURL) ELSE 0

Listening(baseURL) == Target(baseURL) # 0 /\ procs[Target(baseURL)] = "running"

Min(a, b) == IF a < b THEN a ELSE b

\* One turn of the loop of waitForHealth: past the deadline it returns the
\* timeout error (every caller of waitForHealth then calls Close); otherwise
\* resp, err := c.httpClient.Get(c.connection.BaseURL + healthPath), where a
\* 200 returns nil and anything else sleeps healthCheckInterval and loops.
WaitForHealth(t) ==
    /\ Running
    /\ pc[t] = "wfh"
    /\ IF elapsed[t] > HealthCheckTimeoutTicks
       THEN /\ pc' = [pc EXCEPT ![t] = "close_cancel"]
            /\ elapsed' = [elapsed EXCEPT ![t] = 0]
            /\ UNCHANGED <<panicked, probed200>>
       ELSE IF connection = Nil \/ httpClient = Nil
       THEN /\ panicked' = Panic(t, "nil pointer dereference")
            /\ UNCHANGED <<pc, elapsed, probed200>>
       ELSE /\ UNCHANGED panicked
            /\ \E ok \in BOOLEAN, d \in 0..1 :
                 /\ ok => Listening(connection.BaseURL)
                 /\ IF ok
                    THEN /\ pc' = [pc EXCEPT ![t] = IF t = Caller THEN "open_hb" ELSE "tick"]
                         /\ probed200' = IF t = Caller THEN TRUE ELSE probed200
                         /\ elapsed' = [elapsed EXCEPT ![t] = 0]
                    ELSE /\ pc' = [pc EXCEPT ![t] = "wfh"]
                         /\ elapsed' = [elapsed EXCEPT ![t] =
                               Min(@ + d + HealthCheckIntervalTicks, HealthCheckTimeoutTicks + 1)]
                         /\ UNCHANGED probed200
    /\ UNCHANGED <<others, config, clientFields, procs, ctxDone, nsess, chanCloses, op, result,
                   started, stat, stdout, calledClosed, killErr, stub>>

\* if c.heartbeatInterval > 0 { c.heartbeatChan = make(chan struct{}); go ... }
\* return nil
OpenHeartbeat ==
    /\ Running
    /\ pc[Caller] = "open_hb"
    /\ IF heartbeatInterval > 0
       THEN /\ heartbeatChan' = nsess
            /\ pc' = [pc EXCEPT ![Caller] = "idle", ![nsess] = "tick"]
       ELSE /\ pc' = [pc EXCEPT ![Caller] = "idle"]
            /\ UNCHANGED heartbeatChan
    /\ result' = "nil"
    /\ UNCHANGED <<others, config, commandContext, cancel, connection, httpClient, procs, ctxDone,
                   nsess, chanCloses, elapsed, op, started, probed200, stat, stdout, calledClosed,
                   killErr, stub, panicked>>

\* a supervision loop that closes the Client at the tick, without polling
TickCloses(n) ==
    /\ Running
    /\ pc[n] = "tick"
    /\ elapsed' = [elapsed EXCEPT ![n] = 0]
    /\ pc' = [pc EXCEPT ![n] = "close_cancel"]
    /\ UNCHANGED <<others, config, clientFields, procs, ctxDone, nsess, chanCloses, history,
                   killErr, stub, panicked>>

\* for range ticker.C { err := c.waitForHealth() ... }
Tick(n) ==
    /\ Running
    /\ pc[n] = "tick"
    /\ elapsed' = [elapsed EXCEPT ![n] = 0]
    /\ pc' = [pc EXCEPT ![n] = "wfh"]
    /\ UNCHANGED <<others, config, clientFields, procs, ctxDone, nsess, chanCloses, history,
                   killErr, stub, panicked>>

\* ------------------------------------------------------ the environment
\* the plugin process ends by itself
PluginExit(n) ==
    /\ Running
    /\ procs[n] = "running"
    /\ procs' = [procs EXCEPT ![n] = "dead"]
    /\ UNCHANGED <<others, config, clientFields, ctxDone, nsess, chanCloses, pc, elapsed, history,
                   killErr, stub, panicked>>

\* exec.CommandContext: the process is killed once its context is done
ContextKill(n) ==
    /\ Running
    /\ n \in ctxDone
    /\ procs[n] = "running"
    /\ procs' = [procs EXCEPT ![n] = "dead"]
    /\ UNCHANGED <<others, config, clientFields, ctxDone, nsess, chanCloses, pc, elapsed, history,
                   killErr, stub, panicked>>

\* ------------------------------------------------------ Schemas and Done
\* Schemas up to its read of c.connection:
\* if c.connection == nil { return nil, errors.New("plugin is not connected") }
SchemasCall ==
    /\ Running
    /\ pc[Caller] = "idle"
    /\ op' = "Schemas"
    /\ IF connection = Nil
       THEN result' = "plugin is not connected" /\ UNCHANGED pc
       ELSE result' = "pending" /\ pc' = [pc EXCEPT ![Caller] = "schemas_get"]
    /\ UNCHANGED <<others, config, clientFields, procs, ctxDone, nsess, chanCloses, elapsed,
                   started, probed200, stat, stdout, calledClosed, killErr, stub, panicked>>

\* resp, err := c.httpClient.Get(c.connection.BaseURL + schemasPath), which
\* reads both fields again, and the rest of Schemas
SchemasGet ==
    /\ Running
    /\ pc[Caller] = "schemas_get"
    /\ IF connection = Nil \/ httpClient = Nil
       THEN /\ panicked' = Panic(Caller, "nil pointer dereference")
            /\ UNCHANGED <<pc, result>>
       ELSE /\ UNCHANGED panicked
            /\ pc' = [pc EXCEPT ![Caller] = "idle"]
            /\ \E ok \in BOOLEAN :
                 /\ ok => Listening(connection.BaseURL)
                 /\ result' = IF ok THEN "schemas" ELSE "PluginExecutionError"
    /\ UNCHANGED <<others, config, clientFields, procs, ctxDone, nsess, chanCloses, elapsed, op,
                   started, probed200, stat, stdout, calledClosed, killErr, stub>>

\* no Done() has been called
NoHandle == [ch |-> NULL, session |-> 0, opened |-> FALSE]

\* Done(): return c.heartbeatChan, called by the caller between its calls;
\* with the handle the waiter keeps the session it asked in and whether
\* that session's Open had started its supervision
Done ==
    /\ Running
    /\ pc[Caller] = "idle"
    /\ handle' = [ch |-> heartbeatChan, session |-> nsess,
                  opened |-> nsess >= 1 /\ pc[nsess] # "none"]
    /\ handle' # handle
    /\ UNCHANGED <<clientVars, serverVars, rpcVars, timedVars, pollVars>>

\* the context the caller passed to the Open of session n is cancelled, and
\* with it the context Open derived from it
ParentCancel(n) ==
    /\ Running
    /\ n <= nsess
    /\ n \notin ctxDone
    /\ ctxDone' = ctxDone \cup {n}
    /\ UNCHANGED <<others, config, clientFields, procs, nsess, chanCloses, pc, elapsed, history,
                   killErr, stub, panicked>>

\* ------------------------------------------------------- Function stub
\* NewFunction(name, c.Connection()): reads clientConnection.FunctionExecutionTimeout
NewFunction ==
    /\ Running
    /\ pc[Caller] = "idle"
    /\ op' = "NewFunction"
    /\ calledClosed' = FALSE
    /\ IF connection = Nil
       THEN /\ panicked' = Panic(Caller, "nil pointer dereference")
            /\ UNCHANGED <<stub, result>>
       ELSE /\ stub' = [BaseURL |-> connection.BaseURL,
                        Timeout |-> connection.FunctionExecutionTimeout]
            /\ result' = "nil"
            /\ UNCHANGED panicked
    /\ UNCHANGED <<others, config, clientFields, procs, ctxDone, nsess, chanCloses, pc, elapsed,
                   started, probed200, stat, stdout, killErr>>

\* Function.Call: the POST fails when nothing listens, is answered, or is
\* never answered; http.Client gives up only when its Timeout is not zero
Call ==
    /\ Running
    /\ pc[Caller] = "idle"
    /\ stub # Nil
    /\ op' = "Call"
    /\ calledClosed' = FALSE
    /\ \E answer \in {"200", "500", "none"} :
         IF ~Listening(stub.BaseURL)
         THEN result' = "FunctionExecutionError" /\ UNCHANGED pc
         ELSE IF answer = "none" /\ stub.Timeout = 0
         THEN result' = "pending" /\ pc' = [pc EXCEPT ![Caller] = "call_blocked"]
         ELSE /\ result' = IF answer = "200" THEN "nil" ELSE "FunctionExecutionError"
              /\ UNCHANGED pc
    /\ UNCHANGED <<others, config, clientFields, procs, ctxDone, nsess, chanCloses, elapsed,
                   started, probed200, stat, stdout, killErr, stub, panicked>>

\* ============================================================ Plugin Server
MaxServerCalls == 4
MaxHandlers == 2
MaxPort == 2

Handlers == 1..MaxHandlers
ServerPorts == 1..MaxPort
Main == "main"
Timer == "timer"
PluginThreads == {Main, Timer}

LowerCase == {"a", "b", "c", "d", "e", "f", "g", "h", "i", "j", "k", "l", "m",
              "n", "o", "p", "q", "r", "s", "t", "u", "v", "w", "x", "y", "z"}
UpperCase == {"A", "B", "C", "D", "E", "F", "G", "H", "I", "J", "K", "L", "M",
              "N", "O", "P", "Q", "R", "S", "T", "U", "V", "W", "X", "Y", "Z"}

RECURSIVE Repeat(_, _)
Repeat(ch, n) == IF n = 0 THEN <<>> ELSE <<ch>> \o Repeat(ch, n - 1)

MaxNameLen == 128
basePath == <<"/">>
healthPath == <<"/", "_", "h", "e", "a", "l", "t", "h", "z">>
schemasPath == <<"/", "_", "s", "c", "h", "e", "m", "a", "s">>

\* the names the main thread registers functions under
FunctionNames ==
    { <<"a">>,
      <<"a", "Z", "9", "-", "_", ".">>,
      Repeat("a", MaxNameLen),
      Tail(healthPath),
      Tail(schemasPath),
      <<>>,
      <<"/", "a">>,
      <<"a", "/", "b">>,
      <<"a", " ">>,
      Repeat("a", MaxNameLen + 1) }

\* validateFunctionName(function) returns no error
validateFunctionName(function) ==
    /\ function # <<>>
    /\ function[1] # "/"
    /\ Len(function) <= MaxNameLen
    /\ \A i \in 1..Len(function) :
          \/ function[i] \in {"-", "_", "."}
          \/ function[i] \in LowerCase
          \/ function[i] \in UpperCase
          \/ function[i] \in DigitChars

InvokePattern(functionName) == basePath \o functionName
SchemaPattern(functionName) == basePath \o functionName \o schemasPath
Registered(rs, pattern) == \E r \in rs : r.pattern = pattern
Route(pattern, kind, handler) == [pattern |-> pattern, kind |-> kind, handler |-> handler]

\* NewPlugin()
NewPlugin ==
    /\ functions = [f \in FunctionNames |-> 0]
    /\ routes = {Route(healthPath, "health", 0), Route(schemasPath, "list", 0)}
    /\ muxPtr = TRUE
    /\ httpServerPtr = TRUE
    /\ srvState = "new"
    /\ listener = 0
    /\ srvStdout = <<>>
    /\ startLog = <<>>
    /\ spc = [t \in PluginThreads |-> IF t = Main THEN "idle" ELSE "armed"]
    /\ sop = [name |-> "none", functionName |-> <<>>, handler |-> 0]
    /\ calls = 0
    /\ srvPanic = "none"

PluginRunning == srvPanic = "none"
\* a step of the plugin process, which shares no memory with the Client's
PluginStep == PluginRunning /\ UNCHANGED notServer
MainCall(name, functionName, handler) ==
    /\ PluginStep
    /\ spc[Main] = "idle"
    /\ calls < MaxServerCalls
    /\ calls' = calls + 1
    /\ sop' = [name |-> name, functionName |-> functionName, handler |-> handler]

\* AddFunction(functionName, handler): the table entry is written first, then
\* the two ServeMux registrations are made, each of which panics on a nil
\* ServeMux or on a pattern that is registered already.
AddFunctionTo(functionName, handler) ==
    /\ MainCall("AddFunction", functionName, handler)
    /\ IF ~validateFunctionName(functionName)
       THEN UNCHANGED <<functions, routes, srvPanic>>
       ELSE /\ functions' = [functions EXCEPT ![functionName] = handler]
            /\ IF ~muxPtr
               THEN srvPanic' = "nil ServeMux" /\ UNCHANGED routes
               ELSE IF Registered(routes, InvokePattern(functionName))
               THEN srvPanic' = "multiple registrations" /\ UNCHANGED routes
               ELSE IF Registered(routes, SchemaPattern(functionName))
               THEN /\ srvPanic' = "multiple registrations"
                    /\ routes' = routes \cup
                          {Route(InvokePattern(functionName), "invoke", handler)}
               ELSE /\ routes' = routes \cup
                          {Route(InvokePattern(functionName), "invoke", handler),
                           Route(SchemaPattern(functionName), "schema", handler)}
                    /\ UNCHANGED srvPanic
    /\ UNCHANGED <<muxPtr, httpServerPtr, srvState, listener, srvStdout, startLog, spc>>

AddFunction == \E functionName \in FunctionNames, handler \in Handlers :
                   AddFunctionTo(functionName, handler)

\* Start(): net.Listen on 127.0.0.1:0, which the system may refuse
StartListen ==
    /\ MainCall("Start", <<>>, 0)
    /\ \E port \in ServerPorts \cup {0} :
          IF port = 0
          THEN /\ startLog' = <<[event |-> "bind failed", port |-> 0]>>
               /\ UNCHANGED <<listener, spc>>
          ELSE /\ startLog' = <<[event |-> "bind", port |-> port]>>
               /\ listener' = port
               /\ spc' = [spc EXCEPT ![Main] = "start_print"]
    /\ UNCHANGED <<functions, routes, muxPtr, httpServerPtr, srvState, srvStdout, srvPanic>>

\* fmt.Println(port); os.Stdout.Sync()
StartPrintSkipped ==
    /\ PluginStep
    /\ spc[Main] = "start_print"
    /\ spc' = [spc EXCEPT ![Main] = "start_addr"]
    /\ UNCHANGED <<functions, routes, muxPtr, httpServerPtr, srvState, listener, srvStdout,
                   startLog, sop, calls, srvPanic>>
StartPrint ==
    /\ PluginStep
    /\ spc[Main] = "start_print"
    /\ spc' = [spc EXCEPT ![Main] = "start_addr"]
    /\ srvStdout' = Append(srvStdout, PortOf(listener) \o <<"\n">>)
    /\ startLog' = Append(startLog, [event |-> "write", port |-> listener])
    /\ UNCHANGED <<functions, routes, muxPtr, httpServerPtr, srvState, listener, sop, calls,
                   srvPanic>>

\* l.httpServer.Addr = ln.Addr().String()
StartAddr ==
    /\ PluginStep
    /\ spc[Main] = "start_addr"
    /\ IF httpServerPtr
       THEN spc' = [spc EXCEPT ![Main] = "start_serve"] /\ UNCHANGED srvPanic
       ELSE srvPanic' = "nil httpServer in Start" /\ UNCHANGED spc
    /\ UNCHANGED <<functions, routes, muxPtr, httpServerPtr, srvState, listener, srvStdout,
                   startLog, sop, calls>>

\* l.httpServer.Serve(ln): a closed Server returns ErrServerClosed at once
StartServe ==
    /\ PluginStep
    /\ spc[Main] = "start_serve"
    /\ IF ~httpServerPtr
       THEN /\ srvPanic' = "nil httpServer in Start"
            /\ UNCHANGED <<spc, srvState, listener, startLog>>
       ELSE IF srvState = "closed"
       THEN /\ spc' = [spc EXCEPT ![Main] = "idle"]
            /\ listener' = 0
            /\ UNCHANGED <<srvState, startLog, srvPanic>>
       ELSE /\ spc' = [spc EXCEPT ![Main] = "serving"]
            /\ srvState' = "serving"
            /\ startLog' = Append(startLog, [event |-> "serve", port |-> listener])
            /\ UNCHANGED <<listener, srvPanic>>
    /\ UNCHANGED <<functions, routes, muxPtr, httpServerPtr, srvStdout, sop, calls>>

\* Serve returns ErrServerClosed once the Server is closed, and Start with it
ServeReturn ==
    /\ PluginStep
    /\ spc[Main] = "serving"
    /\ srvState = "closed"
    /\ spc' = [spc EXCEPT ![Main] = "idle"]
    /\ UNCHANGED <<functions, routes, muxPtr, httpServerPtr, srvState, listener, srvStdout,
                   startLog, sop, calls, srvPanic>>

\* Stop() called by the main thread, or by a timer as in the health example
StopCall(t) ==
    /\ IF t = Main
       THEN MainCall("Stop", <<>>, 0)
       ELSE PluginStep /\ spc[Timer] = "armed" /\ UNCHANGED <<sop, calls>>
    /\ spc' = [spc EXCEPT ![t] = "stop_check"]
    /\ UNCHANGED <<functions, routes, muxPtr, httpServerPtr, srvState, listener, srvStdout,
                   startLog, srvPanic>>

\* if l.httpServer != nil
StopCheck(t) ==
    /\ PluginStep
    /\ spc[t] = "stop_check"
    /\ spc' = [spc EXCEPT ![t] = IF httpServerPtr THEN "stop_close" ELSE "stop_d_server"]
    /\ UNCHANGED <<functions, routes, muxPtr, httpServerPtr, srvState, listener, srvStdout,
                   startLog, sop, calls, srvPanic>>

\* _ = l.httpServer.Close()
StopClose(t) ==
    /\ PluginStep
    /\ spc[t] = "stop_close"
    /\ IF httpServerPtr
       THEN /\ srvState' = "closed"
            /\ listener' = IF srvState = "serving" THEN 0 ELSE listener
            /\ spc' = [spc EXCEPT ![t] = "stop_d_server"]
            /\ UNCHANGED srvPanic
       ELSE /\ srvPanic' = "nil httpServer in Stop"
            /\ UNCHANGED <<srvState, listener, spc>>
    /\ UNCHANGED <<functions, routes, muxPtr, httpServerPtr, srvStdout, startLog, sop, calls>>

\* deferred: l.httpServer = nil
StopDeferServer(t) ==
    /\ PluginStep
    /\ spc[t] = "stop_d_server"
    /\ httpServerPtr' = FALSE
    /\ spc' = [spc EXCEPT ![t] = "stop_d_mux"]
    /\ UNCHANGED <<functions, routes, muxPtr, srvState, listener, srvStdout, startLog, sop,
                   calls, srvPanic>>

\* deferred: l.mux = nil
StopDeferMux(t) ==
    /\ PluginStep
    /\ spc[t] = "stop_d_mux"
    /\ muxPtr' = FALSE
    /\ spc' = [spc EXCEPT ![t] = IF t = Main THEN "idle" ELSE "fired"]
    /\ UNCHANGED <<functions, routes, httpServerPtr, srvState, listener, srvStdout, startLog,
                   sop, calls, srvPanic>>

Stop(t) ==
    \/ StopCall(t)
    \/ StopCheck(t)
    \/ StopClose(t)
    \/ StopDeferServer(t)
    \/ StopDeferMux(t)

ServerNext ==
    \/ AddFunction
    \/ StartListen
    \/ StartPrint
    \/ StartAddr
    \/ StartServe
    \/ ServeReturn
    \/ \E t \in PluginThreads : Stop(t)

\* ===================================================== Function Endpoint
MaxRequests == 2
MinLength == 3
StatusOK == 200
StatusBadRequest == 400
StatusNotFound == 404
StatusMethodNotAllowed == 405
StatusInternalServerError == 500

\* JSON documents and other bodies, as they travel in requests and responses
JNull == [kind |-> "null"]
JObject(members) == [kind |-> "object", members |-> members]
JText(text) == [kind |-> "text", text |-> text]

\* values of the input type T and of the output type R; Nil is a nil pointer
In(name, score) == [name |-> name, score |-> score]
Out(greeting, score) == [greeting |-> greeting, score |-> score]
Alice == <<"a", "l", "i", "c", "e">>
Al == <<"a", "l">>
Hi == <<"h", "i">>
InVals == {Nil, In(Alice, "0"), In(Alice, "1.5"), In(Al, "0"), In(<<>>, "0"), In(Alice, "NaN")}
OutVals == {Nil, Out(Hi, "1.5"), Out(<<>>, "0"), Out(Hi, "NaN")}

\* json.Marshal / json.Encoder.Encode of a pointer: null for nil, an error
\* for a float that JSON cannot carry, else an object with every field
Marshal(v) ==
    IF v = Nil THEN [ok |-> TRUE, doc |-> JNull]
    ELSE IF v.score = "NaN" THEN [ok |-> FALSE, doc |-> JText("")]
    ELSE [ok |-> TRUE, doc |-> JObject(v)]

Member(members, key, default) == IF key \in DOMAIN members THEN members[key] ELSE default

\* json.Decoder.Decode into a zero T with DisallowUnknownFields
Decode(doc) ==
    IF doc.kind = "null" THEN [ok |-> TRUE, val |-> In(<<>>, "0")]
    ELSE IF doc.kind = "object" /\ DOMAIN doc.members \subseteq {"name", "score"}
    THEN [ok |-> TRUE, val |-> In(Member(doc.members, "name", <<>>),
                                  Member(doc.members, "score", "0"))]
    ELSE [ok |-> FALSE, val |-> Nil]

\* json.Unmarshal into a zero R: null leaves it zero, unknown members are dropped
Unmarshal(doc) ==
    IF doc.kind = "null" THEN [ok |-> TRUE, val |-> Out(<<>>, "0")]
    ELSE IF doc.kind = "object"
    THEN [ok |-> TRUE, val |-> Out(Member(doc.members, "greeting", <<>>),
                                   Member(doc.members, "score", "0"))]
    ELSE [ok |-> FALSE, val |-> Nil]

\* Validator.Validate(data).IsValid() for the schema of T, whose name has a
\* declared minimum length
Validate(doc) ==
    /\ doc.kind = "object"
    /\ "name" \in DOMAIN doc.members => Len(doc.members.name) >= MinLength

\* the bodies a client other than the stub may send
RawBodies ==
    { JNull,
      JObject([name |-> Alice]),
      JObject([name |-> Al]),
      JObject([score |-> "1.5"]),
      JObject([name |-> Alice, extra |-> "1"]),
      JObject([name |-> Al, extra |-> "1"]),
      JText("{"),
      JText("") }
Methods == {"POST", "GET", "PUT"}

\* what the wrapped function may return: an output, or an error with its text
FnReturns ==
    {[out |-> v, err |-> ""] : v \in OutVals} \cup
    {[out |-> Nil, err |-> "boom"], [out |-> Out(Hi, "1.5"), err |-> "boom"]}
StubNames == {"hello", "scan"}

NoRequest == [method |-> "none", body |-> JText(""), readErr |-> FALSE, viaStub |-> FALSE,
              route |-> "none"]
NoResponse == [status |-> 0, body |-> JText("")]
NoReturn == [out |-> Nil, err |-> "not invoked"]
NoError == [kind |-> "nil"]
NoCall == [out |-> Nil, err |-> [kind |-> "no call"]]
NoWire == [sent |-> FALSE, read |-> FALSE]
FunctionExecutionError(function, cause) ==
    [kind |-> "FunctionExecutionError", Function |-> function, Err |-> cause]
StatusCause(status, body) == [what |-> "plugin returned status", status |-> status, body |-> body]

\* NewFunctionHandler(fn, validator) and the empty wire
NewEndpoint ==
    /\ endpoint = Nil
    /\ request = NoRequest
    /\ response = NoResponse
    /\ hpc = "idle"
    /\ invocations = 0
    /\ decoded = Nil
    /\ fnRet = NoReturn
    /\ cpc = "idle"
    /\ callIn = Nil
    /\ callName = "none"
    /\ callRet = NoCall
    /\ wire = NoWire
    /\ nreq = 0

\* a step of the endpoint or of the stub's closure
RpcStep == UNCHANGED notRpc

NewFunctionHandler ==
    /\ RpcStep
    /\ endpoint = Nil
    /\ \E validator \in BOOLEAN : endpoint' = [validator |-> validator]
    /\ UNCHANGED <<request, response, hpc, invocations, decoded, fnRet, cpc, callIn, callName,
                   callRet, wire, nreq>>

\* a request reaches the endpoint's handler
Deliver(method, body, readErr, viaStub) ==
    /\ request' = [method |-> method, body |-> body, readErr |-> readErr, viaStub |-> viaStub,
                   route |-> "function"]
    /\ response' = NoResponse
    /\ hpc' = "method"
    /\ invocations' = 0
    /\ decoded' = Nil
    /\ fnRet' = NoReturn

\* an HTTP client other than the stub sends a request to the function's path
RawRequest ==
    /\ RpcStep
    /\ endpoint # Nil /\ hpc = "idle" /\ cpc = "idle"
    /\ nreq < MaxRequests
    /\ nreq' = nreq + 1
    /\ \E method \in Methods, body \in RawBodies, readErr \in BOOLEAN :
          Deliver(method, body, readErr, FALSE)
    /\ callRet' = NoCall
    /\ wire' = NoWire
    /\ UNCHANGED <<endpoint, cpc, callIn, callName>>

RawResponse ==
    /\ RpcStep
    /\ hpc = "done" /\ ~request.viaStub
    /\ hpc' = "idle"
    /\ UNCHANGED <<endpoint, request, response, invocations, decoded, fnRet, cpc, callIn,
                   callName, callRet, wire, nreq>>

Respond(status, body) ==
    /\ response' = [status |-> status, body |-> body]
    /\ hpc' = "done"

\* if r.Method != http.MethodPost
HandlerMethod ==
    /\ RpcStep
    /\ hpc = "method"
    /\ IF request.method # "POST"
       THEN Respond(StatusMethodNotAllowed, JText("method not allowed"))
       ELSE hpc' = "decode" /\ UNCHANGED response
    /\ UNCHANGED <<endpoint, request, invocations, decoded, fnRet, cpc, callIn, callName,
                   callRet, wire, nreq>>

\* decodeInput: the validator, when there is one, rejects the data
InputRejectedNever(validator, data) == FALSE
InputRejected(validator, data) == validator /\ ~Validate(data)

\* req, err := decodeInput(r, validator)
HandlerDecodeInput ==
    /\ RpcStep
    /\ hpc = "decode"
    /\ IF request.readErr
       THEN Respond(StatusBadRequest, JText("unexpected EOF")) /\ UNCHANGED decoded
       ELSE IF InputRejected(endpoint.validator, request.body)
       THEN Respond(StatusBadRequest, JText("invalid input")) /\ UNCHANGED decoded
       ELSE IF ~Decode(request.body).ok
       THEN Respond(StatusBadRequest, JText("json: cannot decode")) /\ UNCHANGED decoded
       ELSE /\ decoded' = Decode(request.body).val
            /\ hpc' = "invoke"
            /\ UNCHANGED response
    /\ UNCHANGED <<endpoint, request, invocations, fnRet, cpc, callIn, callName, callRet,
                   wire, nreq>>

\* resp, err := fn(r.Context(), req)
HandlerInvoke ==
    /\ RpcStep
    /\ hpc = "invoke"
    /\ invocations' = invocations + 1
    /\ \E r \in FnReturns :
          /\ fnRet' = r
          /\ IF r.err # ""
             THEN Respond(StatusInternalServerError, JText(r.err))
             ELSE hpc' = "encode" /\ UNCHANGED response
    /\ UNCHANGED <<endpoint, request, decoded, cpc, callIn, callName, callRet, wire, nreq>>

\* encodeOutput(w, http.StatusOK, resp): the status is written before the
\* output is encoded, and an output that cannot be encoded leaves the body empty
HandlerEncodeOutput ==
    /\ RpcStep
    /\ hpc = "encode"
    /\ Respond(StatusOK, Marshal(fnRet.out).doc)
    /\ UNCHANGED <<endpoint, request, invocations, decoded, fnRet, cpc, callIn, callName,
                   callRet, wire, nreq>>

\* ========================================================= Function.Call
\* return nil, &FunctionExecutionError{Function: name, Err: err}
CallFailsAs(name, cause) ==
    /\ callRet' = [out |-> Nil, err |-> FunctionExecutionError(name, cause)]
    /\ cpc' = "idle"
CallFails(cause) == CallFailsAs(callName, cause)

\* Call(input): json.Marshal(input), http.NewRequest(POST, BaseURL/name)
CallSerialize ==
    /\ RpcStep
    /\ cpc = "idle" /\ hpc = "idle"
    /\ nreq < MaxRequests
    /\ nreq' = nreq + 1
    /\ wire' = NoWire
    /\ \E input \in InVals, name \in StubNames, urlOK \in BOOLEAN :
          /\ callIn' = input
          /\ callName' = name
          /\ IF ~Marshal(input).ok
             THEN CallFailsAs(name, [what |-> "json: unsupported value"])
             ELSE IF ~urlOK
             THEN CallFailsAs(name, [what |-> "parse: invalid URL"])
             ELSE cpc' = "do" /\ callRet' = NoCall
    /\ UNCHANGED <<endpoint, request, response, hpc, invocations, decoded, fnRet>>

\* function.httpClient.Do(req): no answer, the endpoint's answer, or the
\* answer of a server that has no such function
CallDo ==
    /\ RpcStep
    /\ cpc = "do"
    /\ \/ /\ CallFails([what |-> "transport error"])
          /\ UNCHANGED <<request, response, hpc, invocations, decoded, fnRet, wire>>
       \/ /\ endpoint # Nil
          /\ Deliver("POST", Marshal(callIn).doc, FALSE, TRUE)
          /\ cpc' = "await"
          /\ wire' = [wire EXCEPT !.sent = TRUE]
          /\ UNCHANGED callRet
       \/ /\ request' = [NoRequest EXCEPT !.method = "POST", !.body = Marshal(callIn).doc,
                                          !.viaStub = TRUE, !.route = "not found"]
          /\ Respond(StatusNotFound, JText("404 page not found"))
          /\ cpc' = "await"
          /\ wire' = [wire EXCEPT !.sent = TRUE]
          /\ invocations' = 0
          /\ decoded' = Nil
          /\ fnRet' = NoReturn
          /\ UNCHANGED callRet
    /\ UNCHANGED <<endpoint, callIn, callName, nreq>>

\* if resp.StatusCode != http.StatusOK
StatusAcceptedAny(status) == TRUE
StatusAccepted(status) == status = StatusOK

\* io.ReadAll(resp.Body), the status check and json.Unmarshal(out, &output)
CallReceive ==
    /\ RpcStep
    /\ cpc = "await" /\ hpc = "done"
    /\ hpc' = "idle"
    /\ \E readOK \in BOOLEAN :
          /\ wire' = [wire EXCEPT !.read = readOK]
          /\ IF ~readOK
             THEN CallFails([what |-> "unexpected EOF"])
             ELSE IF ~StatusAccepted(response.status)
             THEN CallFails(StatusCause(response.status, response.body))
             ELSE IF ~Unmarshal(response.body).ok
             THEN CallFails([what |-> "json: cannot unmarshal"])
             ELSE /\ callRet' = [out |-> Unmarshal(response.body).val, err |-> NoError]
                  /\ cpc' = "idle"
    /\ UNCHANGED <<endpoint, request, response, invocations, decoded, fnRet, callIn, callName,
                   nreq>>

RpcNext ==
    \/ NewFunctionHandler
    \/ RawRequest
    \/ RawResponse
    \/ HandlerMethod
    \/ HandlerDecodeInput
    \/ HandlerInvoke
    \/ HandlerEncodeOutput
    \/ CallSerialize
    \/ CallDo
    \/ CallReceive

\* ================================================= supervision in real time
\* One supervised session on a clock that counts units of 50 ms.
MaxTime == 120
HeartbeatInterval == 4
DefaultHealthCheckTimeout == 100
DefaultHealthCheckInterval == 3
ExampleHealthCheckTimeout == 2

\* New(path, WithHeartbeatInterval(200 ms), ...) before Open
NewTimed ==
    /\ now = 0
    /\ tpc = "new"
    /\ healthCheckTimeout = DefaultHealthCheckTimeout
    /\ nextTick = 0
    /\ deadline = 0
    /\ wake = 0
    /\ plugin = "none"
    /\ tExit = -1
    /\ tFired = -1

\* a step of the supervised session
TimedStep == now <= MaxTime /\ UNCHANGED notTimed

\* Open succeeds with the default health-check timeout or with the health
\* example's, and starts the ticker
TimedOpen ==
    /\ TimedStep
    /\ tpc = "new"
    /\ \E timeout \in {DefaultHealthCheckTimeout, ExampleHealthCheckTimeout} :
          healthCheckTimeout' = timeout
    /\ plugin' = "running"
    /\ nextTick' = now + HeartbeatInterval
    /\ tpc' = "ticker"
    /\ UNCHANGED <<now, deadline, wake, tExit, tFired>>

\* the plugin exits mid-run
TimedPluginExit ==
    /\ TimedStep
    /\ plugin = "running"
    /\ plugin' = "dead"
    /\ tExit' = now
    /\ UNCHANGED <<now, tpc, healthCheckTimeout, nextTick, deadline, wake, tFired>>

\* for range ticker.C; waitForHealth: deadline := time.Now().Add(c.healthCheckTimeout)
TimedTick ==
    /\ TimedStep
    /\ tpc = "ticker"
    /\ now >= nextTick
    /\ nextTick' = nextTick + HeartbeatInterval
    /\ deadline' = now + healthCheckTimeout
    /\ tpc' = "probe"
    /\ UNCHANGED <<now, healthCheckTimeout, wake, plugin, tExit, tFired>>

\* a polling loop that never gives up
TimedProbeForever ==
    /\ TimedStep
    /\ tpc = "probe"
    /\ IF plugin = "running"
       THEN tpc' = "ticker" /\ UNCHANGED wake
       ELSE tpc' = "sleep" /\ wake' = now + DefaultHealthCheckInterval
    /\ UNCHANGED <<now, healthCheckTimeout, nextTick, deadline, plugin, tExit, tFired>>

\* one turn of waitForHealth's loop: the deadline check, the probe, which a
\* running plugin answers with 200 and a dead one's port refuses, and the
\* start of time.Sleep(c.healthCheckInterval)
TimedProbe ==
    /\ TimedStep
    /\ tpc = "probe"
    /\ IF now > deadline
       THEN tpc' = "close" /\ UNCHANGED wake
       ELSE IF plugin = "running"
       THEN tpc' = "ticker" /\ UNCHANGED wake
       ELSE tpc' = "sleep" /\ wake' = now + DefaultHealthCheckInterval
    /\ UNCHANGED <<now, healthCheckTimeout, nextTick, deadline, plugin, tExit, tFired>>

\* time.Sleep returns
TimedWake ==
    /\ TimedStep
    /\ tpc = "sleep"
    /\ now >= wake
    /\ tpc' = "probe"
    /\ UNCHANGED <<now, healthCheckTimeout, nextTick, deadline, wake, plugin, tExit, tFired>>

\* _ = c.Close(): the process is killed and heartbeatChan closed
TimedClose ==
    /\ TimedStep
    /\ tpc = "close"
    /\ tpc' = "closed"
    /\ plugin' = "dead"
    /\ tFired' = now
    /\ UNCHANGED <<now, healthCheckTimeout, nextTick, deadline, wake, tExit>>

\* 50 ms pass while the goroutine waits for the ticker or sleeps
Advance ==
    /\ TimedStep
    /\ now < MaxTime
    /\ \/ tpc = "ticker" /\ now < nextTick
       \/ tpc = "sleep" /\ now < wake
    /\ now' = now + 1
    /\ UNCHANGED <<tpc, healthCheckTimeout, nextTick, deadline, wake, plugin, tExit, tFired>>

TimedNext ==
    \/ TimedOpen
    \/ TimedPluginExit
    \/ TimedTick
    \/ TimedProbe
    \/ TimedWake
    \/ TimedClose
    \/ Advance

\* ========================================================= startup polling
\* Open's waitForHealth on a clock, in units of 50 ms: the deadline is checked
\* between the probes, and each probe is a GET of c.httpClient, whose Timeout
\* is functionExecutionTimeout.
\* the transport client's timeout (seconds) in these units, 20 to the second
ProbeTimeout == DefaultFunctionExecutionTimeout * 20
\* how long a probe takes: refused or answered at once, answered late, or
\* never answered and cut off by the transport client's timeout
ProbeDurations == {0, 1, ProbeTimeout}
\* the health-check timeouts a Client is configured with: none, the health
\* example's, the default
PollTimeouts == {0, ExampleHealthCheckTimeout, DefaultHealthCheckTimeout}

NewPoll ==
    /\ pnow = 0
    /\ ppc = "new"
    /\ ptimeout = DefaultHealthCheckTimeout
    /\ pstart = 0
    /\ pdeadline = 0
    /\ probes = 0
    /\ failed = 0
    /\ slept = 0
    /\ got200 = FALSE
    /\ handle = NoHandle

\* Open calls waitForHealth: deadline := time.Now().Add(c.healthCheckTimeout);
\* the clock may move on before the loop reads it again
PollBegin ==
    /\ ppc = "new"
    /\ \E timeout \in PollTimeouts, later \in 0..1 :
         /\ ptimeout' = timeout
         /\ pstart' = pnow
         /\ pdeadline' = pnow + timeout
         /\ pnow' = pnow + later
    /\ ppc' = "check"
    /\ UNCHANGED <<notPoll, probes, failed, slept, got200>>

\* if time.Now().After(deadline) { return error }
PollCheck ==
    /\ ppc = "check"
    /\ ppc' = IF pnow > pdeadline THEN "timeout" ELSE "probe"
    /\ UNCHANGED <<notPoll, pnow, ptimeout, pstart, pdeadline, probes, failed, slept, got200>>

\* resp, err := c.httpClient.Get(...); 200 returns nil; a plugin that never
\* answers holds the probe until the transport client's timeout
PollProbe ==
    /\ ppc = "probe"
    /\ \E ok \in BOOLEAN, d \in ProbeDurations :
         /\ ok => d < ProbeTimeout
         /\ pnow' = pnow + d
         /\ probes' = probes + 1
         /\ got200' = ok
         /\ failed' = IF ok THEN failed ELSE failed + 1
         /\ ppc' = IF ok THEN "healthy" ELSE "sleep"
    /\ UNCHANGED <<notPoll, ptimeout, pstart, pdeadline, slept>>

\* time.Sleep(c.healthCheckInterval)
PollSleep ==
    /\ ppc = "sleep"
    /\ pnow' = pnow + DefaultHealthCheckInterval
    /\ slept' = slept + 1
    /\ ppc' = "check"
    /\ UNCHANGED <<notPoll, ptimeout, pstart, pdeadline, probes, failed, got200>>

PollNext ==
    \/ PollBegin
    \/ PollCheck
    \/ PollProbe
    \/ PollSleep

\* ============================================================ specifications
Init == New /\ NewPlugin /\ NewEndpoint /\ NewTimed /\ NewPoll

Next ==
    \/ OpenCall
    \/ OpenCancel
    \/ OpenStart
    \/ OpenRead
    \/ OpenConn
    \/ OpenHTTP
    \/ OpenHeartbeat
    \/ CloseCall
    \/ \E t \in Threads : Close(t) \/ WaitForHealth(t)
    \/ \E n \in Sessions : Tick(n) \/ PluginExit(n) \/ ContextKill(n)

\* the Client, its supervision goroutines and the plugin processes
Spec == Init /\ [][Next]_vars

\* the same with a caller that also builds and calls a Function
StubNext ==
    \/ Next
    \/ NewFunction
    \/ Call

SpecStub == Init /\ [][StubNext]_vars

\* The Go scheduler runs every goroutine that can take a step, a ticker keeps
\* firing, and the process of a cancelled context is killed.  Nothing makes
\* the caller begin a call or a plugin exit.
Fairness ==
    /\ \A n \in Sessions : WF_vars(Tick(n) \/ WaitForHealth(n) \/ Close(n))
    /\ WF_vars(OpenCancel \/ OpenStart \/ OpenRead \/ OpenConn \/ OpenHTTP \/ OpenHeartbeat
                 \/ WaitForHealth(Caller) \/ Close(Caller))
    /\ \A n \in Sessions : WF_vars(ContextKill(n))

\* the Client under a fair scheduler
SpecLive == Init /\ [][Next]_vars /\ Fairness

\* the same with a caller that may cancel the contexts it passed to Open
CtxNext ==
    \/ Next
    \/ \E n \in Sessions : ParentCancel(n)

SpecCtx == Init /\ [][CtxNext]_vars /\ Fairness

\* the same with a caller that also asks for the schemas
SchemasNext ==
    \/ Next
    \/ SchemasCall
    \/ SchemasGet

SpecSchemas == Init /\ [][SchemasNext]_vars

\* the same with a caller that also asks for the health signal
DoneNext ==
    \/ Next
    \/ Done

SpecDone == Init /\ [][DoneNext]_vars

\* the Plugin Server in the plugin process: a main thread and a timer
SpecServer == Init /\ [][ServerNext]_vars

\* one supervised session of a Client with a 200 ms heartbeat, on a clock
SpecTimed == Init /\ [][TimedNext]_vars

\* one Function Endpoint, the requests it serves and the Calls of one stub
SpecCall == Init /\ [][RpcNext]_vars

\* Open's startup polling on a clock
SpecPoll == Init /\ [][PollNext]_vars

\* ================================================================ claims
OpenSucceeded == pc[Caller] = "idle" /\ op = "Open" /\ result = "nil"
OpenFailedAfterStart ==
    pc[Caller] = "idle" /\ op = "Open" /\ result = "PluginExecutionError" /\ started # 0
CloseReturned == pc[Caller] = "idle" /\ op = "Close"
CallerPanicked == panicked.thread = Caller

\* what only the caller's own steps change
callerVars == <<op, result, stat, started, probed200, calledClosed, stdout, stub, killErr,
                pc[Caller]>>
OpenCallStep == pc[Caller] = "idle" /\ op' = "Open" /\ callerVars' # callerVars

\* C1: a process is spawned only while the Client holds no Process Handle, and
\* an Open called while a Process Handle exists returns the already-running
\* error, spawns nothing and leaves the Process Handle and the Connection as
\* they are.
C1_OpenWhileOpenRefused ==
    [][ /\ \A n \in Sessions :
             (procs[n] = "none" /\ procs'[n] # "none") => commandContext = NULL
        /\ (OpenCallStep /\ commandContext # NULL)
             => /\ result' = "already running"
                /\ pc'[Caller] = "idle"
                /\ UNCHANGED <<clientFields, procs, nsess>> ]_vars

C1_Witness ==
    /\ op = "Open" /\ result = "already running"
    /\ commandContext # NULL /\ connection # Nil /\ procs[commandContext] = "running"

\* C2: when Open returns an error after it has started the child process, the
\* process is dead and connection, commandContext, httpClient and cancel are nil.
C2_FailedOpenCleansUp ==
    OpenFailedAfterStart =>
        /\ procs[started] = "dead"
        /\ connection = Nil /\ commandContext = NULL /\ httpClient = Nil /\ cancel = NULL

\* C3: when Close returns, no child process is running and connection,
\* commandContext and httpClient are nil.
C3_CloseLeavesNothing ==
    CloseReturned =>
        /\ \A n \in Sessions : procs[n] # "running"
        /\ connection = Nil /\ commandContext = NULL /\ httpClient = Nil

\* C4: Close on a Client whose fields are all nil (never opened, or already
\* torn down) kills nothing, closes no channel, does not panic, leaves every
\* field nil and returns nil; and every Close returns with every field nil, so
\* a second Close changes nothing.
C4_CloseIdempotent ==
    /\ (op = "Close" /\ calledClosed) =>
          /\ AllNil
          /\ pc[Caller] \notin {"close_kill", "close_d_close", "close_d_chnil"}
          /\ ~CallerPanicked
          /\ (pc[Caller] = "idle" => result = "nil")
    /\ CloseReturned => AllNil

C4_Witness == CloseReturned /\ calledClosed /\ nsess > 0 /\ result = "nil"

\* C5: no health-signal channel is closed more than once.
C5_ChannelClosedOnce == \A n \in Sessions : chanCloses[n] <= 1

\* the first stdout line is exactly a positive decimal number and a newline
StrictPortLine(l) ==
    /\ Len(l) >= 2
    /\ l[Len(l)] = "\n"
    /\ AllDigits(SubSeq(l, 1, Len(l) - 1))
    /\ DecimalValue(SubSeq(l, 1, Len(l) - 1)) > 0

\* C6: at the step on which Open returns nil, a health probe of this Open has
\* returned 200, the Connection for the announced port is installed, and the
\* supervision goroutine of this session runs exactly if heartbeatInterval > 0.
C6_OpenSuccessMeansHealthy ==
    [][ (pc[Caller] = "open_hb" /\ pc'[Caller] = "idle") =>
            /\ probed200
            /\ connection' # Nil
            /\ connection' = NewConnection(TrimSpace(stdout))
            /\ (pc'[nsess] = "tick") <=> (heartbeatInterval > 0) ]_vars

\* no execute permission bit (owner, group, other) is set in the mode
NoExecBit(mode) == \A k \in {1, 8, 64} : (mode \div k) % 2 = 0

\* C7: an Open on a Client without a Process Handle returns
\* PluginNotFoundError when the path is missing or a directory and
\* PluginExecutionError when it is a file with no execute bit; either way it
\* spawns nothing and changes no Client field.
C7_BadPathRefused ==
    [][ (OpenCallStep /\ commandContext = NULL) =>
            /\ stat' # Nil
            /\ stat'.kind \in {"missing", "dir"} =>
                  /\ result' = "PluginNotFoundError"
                  /\ pc'[Caller] = "idle"
                  /\ UNCHANGED <<clientFields, procs, nsess>>
            /\ (stat'.kind = "file" /\ NoExecBit(stat'.mode)) =>
                  /\ result' = "PluginExecutionError"
                  /\ pc'[Caller] = "idle"
                  /\ UNCHANGED <<clientFields, procs, nsess>> ]_vars

C7_Witness ==
    /\ pc[Caller] = "idle" /\ op = "Open" /\ result = "PluginExecutionError"
    /\ stat # Nil /\ stat.kind = "file" /\ NoExecBit(stat.mode)
    /\ AllNil /\ \A n \in Sessions : procs[n] = "none"

\* C8: Open succeeds only on a first line that is exactly a positive decimal
\* port number followed by a newline.
C8_OnlyStrictPortAccepted == OpenSucceeded => StrictPortLine(stdout)

\* C9: building a Function from Connection() and calling it never panics and
\* never blocks for ever.
C9_StubFailsCleanly ==
    /\ ~(CallerPanicked /\ op = "NewFunction")
    /\ pc[Caller] # "call_blocked"

\* C10: the Connection of a successful Open carries the configured
\* function-call timeout, and no Call through a stub built from it blocks
\* beyond that timeout.
C10_ConnectionCarriesTimeout ==
    /\ (OpenSucceeded /\ connection # Nil) =>
           connection.FunctionExecutionTimeout = functionExecutionTimeout
    /\ pc[Caller] # "call_blocked"

\* ------------------------------------------------------------ supervision
\* the caller's last call is the Open that started process n, and it succeeded
OpenedSession(n) == OpenSucceeded /\ started = n
\* the supervision's full Close of session n
TornDown(n) == procs[n] = "dead" /\ connection = Nil /\ chanCloses[n] >= 1

\* C11: with heartbeatInterval > 0, once the plugin of a successfully opened
\* session has exited, then, unless the caller makes another call, eventually
\* the process is dead, connection is nil and the session's heartbeatChan is
\* closed.
C11_SupervisionCloses ==
    \A n \in Sessions :
        (heartbeatInterval > 0 /\ OpenedSession(n) /\ procs[n] = "dead")
            ~> (TornDown(n) \/ ~OpenedSession(n))

\* C21: a child process whose context has been cancelled, or that is still
\* running when the caller's Close has returned, is eventually terminated.
C21_ProcessBoundedByContext ==
    \A n \in Sessions :
        (procs[n] = "running" /\ (n \in ctxDone \/ CloseReturned))
            ~> procs[n] # "running"

\* C12 (as stated): with a 200 ms heartbeat and otherwise default settings, the health
\* signal fires at most two heartbeat intervals (400 ms) after the plugin
\* exited, and from then on the plugin is dead, so no call can succeed.
C12_SignalWithinTwoIntervals ==
    healthCheckTimeout = DefaultHealthCheckTimeout =>
        /\ (tExit >= 0 /\ tFired = -1) => now - tExit <= 2 * HeartbeatInterval
        /\ tFired >= 0 => plugin = "dead"

\* C12 (amended): the health signal fires at most one heartbeat interval, one
\* health-check timeout and one polling sleep after the plugin exited, which
\* with the health example's 100 ms timeout is within two heartbeat intervals
\* (400 ms); from then on the plugin is dead, so no call can succeed.
C12_SignalWithinPollWindow ==
    /\ (tExit >= 0 /\ tFired = -1)
          => now - tExit <= HeartbeatInterval + healthCheckTimeout + DefaultHealthCheckInterval
    /\ (tExit >= 0 /\ tFired = -1 /\ healthCheckTimeout = ExampleHealthCheckTimeout)
          => now - tExit <= 2 * HeartbeatInterval
    /\ tFired >= 0 => plugin = "dead"

\* the signal has fired for a plugin that exited, with the example's timeout
C12_Witness ==
    tExit >= 0 /\ tFired >= tExit /\ healthCheckTimeout = ExampleHealthCheckTimeout

\* ------------------------------------------------------ Function Endpoint
\* the endpoint's handler has answered the request
Replied == request.route = "function" /\ response.status # 0

C14_StatusPriority ==
    Replied =>
        IF request.method # "POST"
        THEN response.status = 405
        ELSE IF endpoint.validator /\ ~Validate(request.body)
        THEN response.status = 400
        ELSE IF request.readErr \/ ~Decode(request.body).ok
        THEN response.status = 400
        ELSE IF fnRet.err # ""
        THEN response.status = 500 /\ response.body = JText(fnRet.err)
        ELSE /\ response.status = 200
             /\ Marshal(fnRet.out).ok
             /\ response.body = Marshal(fnRet.out).doc

\* ---------------------------------------------------------- Function.Call
CallReturned == cpc = "idle" /\ callRet # NoCall
\* the Call's request was answered by the endpoint and the answer read
AnsweredByEndpoint == wire.sent /\ wire.read /\ request.route = "function"

\* C15: when the endpoint accepts the input of a Call and the wrapped
\* function returns an output (a nil one included) and no error, Call returns
\* no error and a value equal to what the wrapped function returned.
C15_CallRoundTrips ==
    (CallReturned /\ AnsweredByEndpoint /\ invocations = 1 /\ fnRet.err = "")
        => callRet.err = NoError /\ callRet.out = fnRet.out

AddFunctionStep == sop'.name = "AddFunction" /\ calls' = calls + 1
\* the function table entry and the two routes of functionName are handler's
RegisteredAs(fs, rs, functionName, handler) ==
    /\ fs[functionName] = handler
    /\ \A r \in rs :
          r.pattern = InvokePattern(functionName) => r = Route(r.pattern, "invoke", handler)
    /\ \A r \in rs :
          r.pattern = SchemaPattern(functionName) => r = Route(r.pattern, "schema", handler)
    /\ Registered(rs, InvokePattern(functionName))
    /\ Registered(rs, SchemaPattern(functionName))

\* C17: registering a function under a valid name that is registered already
\* completes without failure, and afterwards the function table entry and the
\* invocation and schema routes of that name are those of the second
\* registration.
C17_LastWriteWins ==
    [][ ( /\ AddFunctionStep
          /\ validateFunctionName(sop'.functionName)
          /\ functions[sop'.functionName] # 0 )
        => /\ srvPanic' = "none"
           /\ RegisteredAs(functions', routes', sop'.functionName, sop'.handler) ]_vars

\* the names the claim calls valid
ValidName(name) ==
    /\ name # <<>>
    /\ Len(name) <= 128
    /\ Head(name) # "/"
    /\ \A i \in 1..Len(name) :
          name[i] \in LowerCase \cup UpperCase \cup DigitChars \cup {"-", "_", "."}

\* C18: AddFunction adds the function table entry and the two routes of a name
\* if and only if the name is valid; for any other name it returns without
\* failure and changes neither table; every key of the function table is a
\* valid name.
C18_RegistersIffValid ==
    /\ [][ AddFunctionStep =>
             IF ValidName(sop'.functionName)
             THEN /\ srvPanic' = "none"
                  /\ RegisteredAs(functions', routes', sop'.functionName, sop'.handler)
             ELSE /\ srvPanic' = "none"
                  /\ UNCHANGED <<functions, routes>> ]_vars
    /\ [](\A f \in FunctionNames : functions[f] # 0 => ValidName(f))

\* the events of one execution of Start, in the order the claim gives
StartOrder(port) ==
    << [event |-> "bind", port |-> port],
       [event |-> "write", port |-> port],
       [event |-> "serve", port |-> port] >>
IsPrefix(s, t) == Len(s) <= Len(t) /\ \A i \in 1..Len(s) : s[i] = t[i]
\* the number of lines the execution has written to standard output
Writes(log) == Cardinality({i \in 1..Len(log) : log[i].event = "write"})

\* C19: an execution of Start binds the listener, then writes the bound port
\* as one line on standard output, then begins to serve, in this order; when
\* the bind fails it returns the error having written nothing.
C19_StartOrder ==
    /\ [](\/ startLog = <<[event |-> "bind failed", port |-> 0]>>
          \/ \E port \in ServerPorts : IsPrefix(startLog, StartOrder(port)))
    /\ [][ IF Writes(startLog') = 1 /\ Writes(startLog) = 0
           THEN srvStdout' = Append(srvStdout, PortOf(listener') \o <<"\n">>)
           ELSE srvStdout' = srvStdout ]_vars

C19_Witness ==
    /\ spc[Main] = "serving"
    /\ startLog = StartOrder(listener)
    /\ srvStdout = <<PortOf(listener) \o <<"\n">> >>

C22_SignalAfterClosed ==
    \A t \in Sessions :
        (pc[t] = "close_d_chnil" /\ chanCloses[t] >= 1 /\ nsess = t)
            => (connection = Nil /\ procs[t] # "running")

\* the supervision goroutine n takes a step of its polling
PollStep(n) == pc[n] = "wfh" /\ (pc'[n] # pc[n] \/ elapsed'[n] # elapsed[n])

\* the places of a supervision goroutine from its Close on
SupervisionEnded ==
    {"close_cancel", "close_kill_check", "close_kill", "close_d_cmd", "close_d_cancel",
     "close_d_chk", "close_d_close", "close_d_chnil", "close_d_conn", "close_d_http", "done"}

\* C23 (as stated): during supervision, once a probe of the tick has failed,
\* the next step of the supervision goroutine is the Close of the Client: the
\* probe is not retried within that tick.
C23_NoRetryWithinTick ==
    [][\A n \in Sessions :
         (PollStep(n) /\ elapsed[n] > 0) => pc'[n] = "close_cancel"]_vars

\* C23 (amended): a supervision goroutine closes the Client only out of a
\* polling attempt whose deadline has passed without a 200, it does so as the
\* next step after such an attempt, and from then on it never polls again.
C23_FailedAttemptEndsSupervision ==
    [][\A n \in Sessions :
         /\ (pc'[n] = "close_cancel" /\ pc[n] # "close_cancel")
               => (pc[n] = "wfh" /\ elapsed[n] > HealthCheckTimeoutTicks)
         /\ (PollStep(n) /\ elapsed[n] > HealthCheckTimeoutTicks)
               => pc'[n] = "close_cancel"
         /\ pc[n] \in SupervisionEnded => pc'[n] \in SupervisionEnded]_vars

\* a supervision goroutine has given up on a plugin and starts its Close
C23_Witness == \E n \in Sessions : pc[n] = "close_cancel" /\ chanCloses[n] = 0

\* the supervision goroutines that are still in their loop
ActiveSupervision == {n \in Sessions : pc[n] \in {"tick", "wfh"}}

\* C26: once an explicit Close has returned, no supervision goroutine polls
\* (no probe, no read of the cleared connection or httpClient) and none
\* starts a teardown; and there is never more than one goroutine in its loop.
C26_SupervisionStopsAtClose ==
    [][/\ CloseReturned =>
            \A n \in Sessions :
                /\ ~PollStep(n)
                /\ ~(pc[n] = "wfh" /\ panicked' # panicked)
                /\ pc[n] \notin SupervisionEnded => pc'[n] \notin SupervisionEnded
       /\ Cardinality(ActiveSupervision') <= 1]_vars

\* C27: a Schemas call never dereferences a connection or httpClient that a
\* teardown has cleared: it returns its result or an error.
C27_SchemasNeverDereferencesNil ==
    op = "Schemas" => ~CallerPanicked

\* C30: a handle obtained from Done in a session whose Open had started its
\* supervision is, once that session's signal has fired, a channel on which
\* the waiter sees it fired (a closed channel, not nil).
C30_HandleObservesSignal ==
    (handle.opened /\ chanCloses[handle.session] >= 1)
        => (handle.ch # NULL /\ chanCloses[handle.ch] >= 1)

\* C28: on a server that has not been stopped, the first registration of a
\* name that passes validateFunctionName completes without a panic, and the
\* built-in health and schema-listing routes are still the built-in ones.
C28_ValidNameRegisters ==
    [][ ( /\ AddFunctionStep
          /\ validateFunctionName(sop'.functionName)
          /\ functions[sop'.functionName] = 0
          /\ muxPtr )
        => /\ srvPanic' = "none"
           /\ Route(healthPath, "health", 0) \in routes'
           /\ Route(schemasPath, "list", 0) \in routes'
           /\ \A r \in routes' : r.pattern \in {healthPath, schemasPath} => r.handler = 0 ]_vars

\* no Open and no Close is in progress, the caller's or a goroutine's
Quiescent ==
    /\ pc[Caller] = "idle"
    /\ \A n \in Sessions : pc[n] \in {"none", "tick", "wfh", "done"}

\* C29: in every state a Connection implies a Process Handle, and while no
\* Open or Close is in progress the Connection is there iff the transport
\* client is.
C29_FieldsConsistent ==
    /\ connection # Nil => commandContext # NULL
    /\ Quiescent => (connection # Nil <=> httpClient # Nil)

\* ---------------------------------------------------------- health polling
\* the polling has returned
PollReturned == ppc \in {"healthy", "timeout"}

\* C24: the time Open spends in startup health polling is bounded by the
\* health-check deadline (to within the last sleep and a short probe),
\* whatever the plugin does.
C24_PollingBoundedByDeadline ==
    ppc # "new" => pnow - pstart <= ptimeout + DefaultHealthCheckInterval + 1

\* C25: health polling issues at least one probe, reports healthy
\* iff a probe returned 200, has slept once for every failed probe whenever it
\* checks the deadline or returns, and reports failure only when the time
\* since it began exceeds the deadline.
C25_PollingAlgorithm ==
    /\ PollReturned => probes >= 1
    /\ PollReturned => (ppc = "healthy" <=> got200)
    /\ ppc \in {"check", "probe", "timeout"} => slept = failed
    /\ ppc = "healthy" => slept = failed /\ failed = probes - 1
    /\ ppc = "timeout" => pnow - pstart > ptimeout

====
